---- MODULE Spec2Model ----
(***************************************************************************)
(* State-machine model of the two SDL2 audio sinks of the snapcast client: *)
(*   WebOSPlayer (buffered sink: worker thread + shared byte buffer) and   *)
(*   Sdl2Player  (direct-pull sink: the hardware callback pulls itself).   *)
(* One sink object exists per behaviour (chosen at construction).  The     *)
(* threads are: one control thread (start / stop / destructor), the        *)
(* player's worker thread, and one SDL audio thread per open device.       *)
(***************************************************************************)
EXTENDS Integers, Sequences, FiniteSets

\* ------------------------------------------------------------------ bounds
\* Capacity of audio_buffer_ in bytes.  The program uses 4096
\* (webos_player.hpp:80); the model scales it down.
BUFFER_SIZE == 3
\* Largest callback length len (bytes) an audio backend asks for: one more
\* than the buffer holds.
MaxLen == BUFFER_SIZE + 1
\* Number of slots in SDL's table of open audio devices.
MaxDevices == 2
\* Largest reference count of SDL's audio subsystem that is explored.
MaxInit == MaxDevices

\* ------------------------------------------------------- program constants
\* audio_spec_.samples, the callback buffer size in frames.
SPEC_SAMPLES == 1024
\* static constexpr auto LATENCY = 30ms
LATENCY == 30

\* --------------------------------------------------------------- data sets
Sinks == {"webos", "sdl2"}
\* Stream formats: bits per sample, bytes per frame, frames per millisecond.
Formats == { [bits |-> 8,  frameSize |-> 1, msRate |-> 8],
             [bits |-> 16, frameSize |-> 2, msRate |-> 48] }
\* Volume factors the volume setter can install.
Volumes == {2}
DeviceIds == 1..MaxDevices
Lens == 0..MaxLen
\* The upstream stream yields the known byte sequence 1, 2, ..., StreamPeriod,
\* 1, 2, ...; a period longer than the buffer tells any two buffered bytes apart.
StreamPeriod == BUFFER_SIZE + 2

\* A PCM byte: s is its position in the upstream sequence (0 for a zero
\* byte), v the volume factor it has been scaled by (0: not scaled).
Zero == [s |-> 0, v |-> 0]
\* What a destination byte holds before the callback writes it.
Stale == [s |-> -1, v |-> 0]
Bytes == [s : 0..StreamPeriod, v : {0} \cup Volumes]

Min(a, b) == IF a < b THEN a ELSE b

\* No request to the upstream stream is in progress.
NoRequest == [frames |-> 0, latency |-> -1, real |-> FALSE, adjusted |-> 0]

VARIABLES
    sink,            \* which player class was constructed
    fmt,             \* stream_->getFormat(), fixed for the object's lifetime
    hw_len,          \* bytes per callback the audio backend asks for (obtained_spec.size)
    audio_device_,   \* SDL_AudioDeviceID, 0 = none
    initialized_,
    audio_active_,   \* WebOSPlayer only
    active_,         \* Player::active_
    audio_buffer_,   \* [1..BUFFER_SIZE -> Bytes]
    buffer_fill_,
    buffer_mutex_,   \* holder: 0 none, -1 the worker, d the callback of device d
    volume,          \* Player::volume_, the volume factor in force
    sdl_refs,        \* SDL: reference count of the audio subsystem
    devices,         \* SDL: device id -> "closed" | "paused" | "playing"
    ctl_op,          \* operation the control thread is in
    ctl_pc,          \* position of the control thread
    prev_op,         \* last completed operation and its result
    sdl_log,         \* SDL calls issued by the operation in progress
    wk_pc,           \* position of the worker thread
    wk_fill,         \* processAudio: local fill
    wk_frames,       \* processAudio: local frames
    wk_late,         \* fill increases this worker thread made with audio_active_ clear
    cb_pc,           \* per device: position of its audio thread in the callback
    cb_len,          \* per device: len of the callback in progress
    cb_stream,       \* per device: destination buffer of the callback
    cb_after_stop,   \* per device: the callback began after stop() had returned
    up_req,          \* per thread (0: the worker, d: the audio thread of device
                     \* d): its request to the upstream stream in progress
    stream_pos,      \* number of bytes the upstream stream has yielded (mod period)
    last_delivered,  \* s of the last buffered byte handed to the hardware
    vol_failed,      \* an adjustVolume call has failed
    escaped          \* an exception has left a hardware callback

vars == << sink, fmt, hw_len, audio_device_, initialized_, audio_active_, active_,
           audio_buffer_, buffer_fill_, buffer_mutex_, volume, sdl_refs, devices,
           ctl_op, ctl_pc, prev_op, sdl_log, wk_pc, wk_fill, wk_frames,
           wk_late, cb_pc, cb_len, cb_stream, cb_after_stop, up_req, stream_pos,
           last_delivered,
           vol_failed, escaped >>

objVars    == << sink, fmt, hw_len >>
flagVars   == << audio_device_, initialized_, audio_active_, active_ >>
bufVars    == << audio_buffer_, buffer_fill_ >>
sdlVars    == << sdl_refs, devices >>
ctlVars    == << ctl_op, ctl_pc, prev_op, sdl_log >>
wkVars     == << wk_pc, wk_fill, wk_frames, wk_late >>
cbVars     == << cb_pc, cb_len, cb_stream, cb_after_stop, up_req >>
histVars   == << stream_pos, last_delivered, vol_failed, escaped >>

\* ------------------------------------------------------------ construction
\* Both constructors: no device, not initialized; WebOSPlayer also clears
\* audio_active_ and buffer_fill_ and value-initialises the buffer.
Init ==
    /\ sink \in Sinks
    /\ fmt \in Formats
    /\ hw_len \in Lens
    /\ audio_device_ = 0
    /\ initialized_ = FALSE
    /\ audio_active_ = FALSE
    /\ active_ = FALSE
    /\ audio_buffer_ = [i \in 1..BUFFER_SIZE |-> Zero]
    /\ buffer_fill_ = 0
    /\ buffer_mutex_ = 0
    /\ volume \in Volumes
    /\ sdl_refs = 0
    /\ devices = [d \in DeviceIds |-> "closed"]
    /\ ctl_op = "none"
    /\ ctl_pc = "idle"
    /\ prev_op = [op |-> "none", res |-> "none"]
    /\ sdl_log = << >>
    /\ wk_pc = "none"
    /\ wk_fill = 0
    /\ wk_frames = 0
    /\ wk_late = 0
    /\ cb_pc = [d \in DeviceIds |-> "idle"]
    /\ cb_len = [d \in DeviceIds |-> 0]
    /\ cb_stream = [d \in DeviceIds |-> << >>]
    /\ cb_after_stop = [d \in DeviceIds |-> FALSE]
    /\ up_req = [th \in {0} \cup DeviceIds |-> NoRequest]
    /\ stream_pos = 0
    /\ last_delivered = 0
    /\ vol_failed = FALSE
    /\ escaped = FALSE

\* The process runs: no exception has left a hardware callback.
Running == ~escaped

\* --------------------------------------------------------- the SDL library
\* SDL_OpenAudioDevice takes the first free slot of its device table; 0 when
\* every slot is taken.
SDL_FreeSlot(devs) ==
    IF \E d \in DeviceIds : devs[d] = "closed"
    THEN CHOOSE d \in DeviceIds :
            /\ devs[d] = "closed"
            /\ \A e \in DeviceIds : devs[e] = "closed" => d <= e
    ELSE 0

\* SDL_PauseAudioDevice(dev, pause_on): sets the pause flag of an open
\* device; an id that is not open is ignored.
SDL_Paused(devs, dev, pause_on) ==
    IF dev \in DeviceIds /\ devs[dev] # "closed"
    THEN [devs EXCEPT ![dev] = IF pause_on THEN "paused" ELSE "playing"]
    ELSE devs

\* SDL_PauseAudioDevice and SDL_CloseAudioDevice take the device lock, which
\* the audio thread holds while it is inside the callback.
SDL_DeviceQuiet(dev) ==
    dev \in DeviceIds /\ devices[dev] # "closed" => cb_pc[dev] = "idle"

\* SDL_Quit closes every open device (joining its audio thread) and shuts
\* the audio subsystem down whatever its reference count.
SDL_QuitReady == \A d \in DeviceIds : SDL_DeviceQuiet(d)

\* --------------------------------------------------------- the Player base
\* Player::start(): marks the player active and spins up the worker thread
\* when the sink needs one.
needsThread == sink = "webos"

Player_start ==
    /\ active_' = TRUE
    /\ wk_pc' = IF needsThread /\ wk_pc = "none" THEN "loop" ELSE wk_pc
    /\ UNCHANGED wk_late

\* An operation of the control thread begins.
Begin(op, pc) ==
    /\ Running
    /\ ctl_op = "none"
    /\ ctl_pc = "idle"
    /\ ctl_op' = op
    /\ ctl_pc' = pc
    /\ UNCHANGED << prev_op, sdl_log >>

\* The operation in progress comes to its end with result res: it returns
\* ("ok") or throws ("init_failed", "unsupported_format").
Finish(op, res) ==
    /\ ctl_pc' = res
    /\ UNCHANGED << ctl_op, prev_op >>

Results == {"ok", "init_failed", "unsupported_format"}

\* Control is back with the caller.
Return ==
    /\ Running
    /\ ctl_op \in {"start", "stop"}
    /\ ctl_pc \in Results
    /\ ctl_op' = "none"
    /\ ctl_pc' = "idle"
    /\ prev_op' = [op |-> ctl_op, res |-> IF ctl_pc = "ok" THEN "ok" ELSE "failed"]
    /\ sdl_log' = << >>

At(op, pc) == Running /\ ctl_op = op /\ ctl_pc = pc

Goto(pc) == ctl_pc' = pc /\ UNCHANGED << ctl_op, prev_op >>

\* stop() has returned and no other operation has begun since.
Stopped == ctl_op = "none" /\ prev_op.op = "stop"

\* ------------------------------------------------ initializeAudio, shared
\* The steps the two initializeAudio functions have in common are written
\* once, parameterised by nothing: both sinks run them on the same fields.

\* SDL_Init(SDL_INIT_AUDIO): fails (return false) or takes a reference.
InitSdlStep(next) ==
    \/ /\ sdl_log' = Append(sdl_log, "InitFailed")
       /\ Finish("start", "init_failed")
       /\ UNCHANGED << sdl_refs >>
    \/ /\ sdl_refs' = sdl_refs + 1
       /\ sdl_log' = Append(sdl_log, "Init")
       /\ Goto(next)

\* audio_device_ = SDL_OpenAudioDevice(...): the id of the first free slot,
\* or 0 (the open can fail at any time, and does when no slot is free).
OpenDeviceStep ==
    \/ /\ audio_device_' = 0
       /\ sdl_log' = Append(sdl_log, "OpenFailed")
       /\ Goto("init_quit")
       /\ UNCHANGED << devices, initialized_ >>
    \/ /\ SDL_FreeSlot(devices) # 0
       /\ audio_device_' = SDL_FreeSlot(devices)
       /\ devices' = [devices EXCEPT ![SDL_FreeSlot(devices)] = "paused"]
       /\ initialized_' = TRUE
       /\ sdl_log' = Append(sdl_log, "Open")
       /\ Goto("player_start")

\* if (audio_device_ == 0) { SDL_Quit(); return false; }
OpenFailedStep ==
    /\ SDL_QuitReady
    /\ sdl_refs' = 0
    /\ devices' = [d \in DeviceIds |-> "closed"]
    /\ sdl_log' = Append(sdl_log, "Quit")
    /\ Finish("start", "init_failed")

\* ------------------------------------------------------------- WebOSPlayer
\* bool WebOSPlayer::initializeAudio(): no check of the sample format.
WebOS_initializeAudio ==
    /\ sink = "webos"
    /\ \/ /\ At("start", "init_sdl")
          /\ InitSdlStep("init_open")
          /\ UNCHANGED << audio_device_, initialized_, devices >>
       \/ /\ At("start", "init_open")
          /\ OpenDeviceStep
          /\ UNCHANGED << sdl_refs >>
       \/ /\ At("start", "init_quit")
          /\ OpenFailedStep
          /\ UNCHANGED << audio_device_, initialized_ >>
    /\ UNCHANGED << objVars, audio_active_, active_, bufVars, buffer_mutex_,
                    volume, wkVars, cbVars, histVars >>

\* void WebOSPlayer::start()
WebOS_start ==
    /\ sink = "webos"
    /\ \/ /\ Begin("start", "init_sdl")
          /\ sdl_refs < MaxInit
          /\ UNCHANGED << flagVars, sdlVars, wkVars >>
       \/ /\ At("start", "player_start")
          /\ Player_start
          /\ Goto("set_active")
          /\ UNCHANGED << audio_device_, initialized_, audio_active_, sdlVars,
                          sdl_log, wk_fill, wk_frames >>
       \/ /\ At("start", "set_active")
          /\ audio_active_' = TRUE
          /\ Goto("unpause")
          /\ UNCHANGED << audio_device_, initialized_, active_, sdlVars,
                          sdl_log, wkVars >>
       \/ /\ At("start", "unpause")
          /\ SDL_DeviceQuiet(audio_device_)
          /\ devices' = SDL_Paused(devices, audio_device_, FALSE)
          /\ sdl_log' = Append(sdl_log, "Unpause")
          /\ Finish("start", "ok")
          /\ UNCHANGED << flagVars, sdl_refs, wkVars >>
    /\ UNCHANGED << objVars, bufVars, buffer_mutex_, volume, cbVars, histVars >>

\* Player::stop(): clears active_ and joins the worker thread.
Player_stop(op, next) ==
    \/ /\ At(op, "player_stop")
       /\ IF active_
          THEN active_' = FALSE /\ Goto("join")
          ELSE UNCHANGED active_ /\ Goto(next)
       /\ UNCHANGED << wk_pc, wk_late >>
    \/ /\ At(op, "join")
       /\ wk_pc \in {"none", "exited"}
       /\ wk_pc' = "none"
       /\ wk_late' = 0
       /\ Goto(next)
       /\ UNCHANGED << active_ >>

\* stop() giving the device back instead of pausing it.
PauseStepClosing ==
    IF audio_device_ # 0
    THEN /\ SDL_DeviceQuiet(audio_device_)
         /\ devices' = [d \in DeviceIds |->
                           IF d = audio_device_ THEN "closed" ELSE devices[d]]
         /\ sdl_log' = Append(sdl_log, "Close")
    ELSE UNCHANGED << devices, sdl_log >>

\* if (audio_device_ != 0) SDL_PauseAudioDevice(audio_device_, 1);
PauseStep ==
    IF audio_device_ # 0
    THEN /\ SDL_DeviceQuiet(audio_device_)
         /\ devices' = SDL_Paused(devices, audio_device_, TRUE)
         /\ sdl_log' = Append(sdl_log, "Pause")
    ELSE UNCHANGED << devices, sdl_log >>

\* void WebOSPlayer::stop(), called as op "stop" or from the destructor.
WebOS_stopSteps(op, next) ==
    /\ sink = "webos"
    /\ \/ /\ At(op, "clr_active")
          /\ audio_active_' = FALSE
          /\ Goto("pause")
          /\ UNCHANGED << audio_device_, initialized_, active_, sdlVars,
                          sdl_log, wkVars >>
       \/ /\ At(op, "pause")
          /\ PauseStep
          /\ Goto("player_stop")
          /\ UNCHANGED << flagVars, sdl_refs, wkVars >>
       \/ /\ Player_stop(op, next)
          /\ UNCHANGED << audio_device_, initialized_, audio_active_, sdlVars,
                          sdl_log, wk_fill, wk_frames >>
    /\ UNCHANGED << objVars, bufVars, buffer_mutex_, volume, cbVars, histVars >>

WebOS_stop ==
    \/ /\ sink = "webos"
       /\ Begin("stop", "clr_active")
       /\ UNCHANGED << objVars, flagVars, bufVars, buffer_mutex_, volume,
                       sdlVars, wkVars, cbVars, histVars >>
    \/ WebOS_stopSteps("stop", "ok")

\* cleanupAudio(), the same text in both sinks.
CleanupAudioSteps ==
    /\ \/ /\ At("dtor", "cleanup_dev")
          /\ IF audio_device_ # 0
             THEN /\ SDL_DeviceQuiet(audio_device_)
                  /\ devices' = IF audio_device_ \in DeviceIds
                                THEN [devices EXCEPT ![audio_device_] = "closed"]
                                ELSE devices
                  /\ audio_device_' = 0
                  /\ sdl_log' = Append(sdl_log, "Close")
             ELSE UNCHANGED << devices, audio_device_, sdl_log >>
          /\ Goto("cleanup_quit")
          /\ UNCHANGED << initialized_, sdl_refs >>
       \/ /\ At("dtor", "cleanup_quit")
          /\ IF initialized_
             THEN /\ SDL_QuitReady
                  /\ sdl_refs' = 0
                  /\ devices' = [d \in DeviceIds |-> "closed"]
                  /\ initialized_' = FALSE
                  /\ sdl_log' = Append(sdl_log, "Quit")
             ELSE UNCHANGED << sdl_refs, devices, initialized_, sdl_log >>
          /\ ctl_pc' = "dead"
          /\ UNCHANGED << ctl_op, prev_op, audio_device_ >>
    /\ UNCHANGED << objVars, audio_active_, active_, bufVars, buffer_mutex_,
                    volume, wkVars, cbVars, histVars >>

\* void WebOSPlayer::cleanupAudio()
WebOS_cleanupAudio == sink = "webos" /\ CleanupAudioSteps

\* WebOSPlayer::~WebOSPlayer(): stop(); cleanupAudio();
WebOS_dtor ==
    \/ /\ sink = "webos"
       /\ Begin("dtor", "clr_active")
       /\ UNCHANGED << objVars, flagVars, bufVars, buffer_mutex_, volume,
                       sdlVars, wkVars, cbVars, histVars >>
    \/ WebOS_stopSteps("dtor", "cleanup_dev")
    \/ WebOS_cleanupAudio

\* -------------------------------------------------------------- Sdl2Player
\* bool Sdl2Player::initializeAudio(): the sample format is checked after
\* SDL_Init and before the device is opened.
Sdl2_initializeAudio ==
    /\ sink = "sdl2"
    /\ \/ /\ At("start", "init_sdl")
          /\ InitSdlStep("init_fmt")
          /\ UNCHANGED << audio_device_, initialized_, devices >>
       \/ /\ At("start", "init_fmt")
          /\ IF fmt.bits # 16
             THEN Finish("start", "unsupported_format")
             ELSE Goto("init_open")
          /\ UNCHANGED << audio_device_, initialized_, sdlVars, sdl_log >>
       \/ /\ At("start", "init_open")
          /\ OpenDeviceStep
          /\ UNCHANGED << sdl_refs >>
       \/ /\ At("start", "init_quit")
          /\ OpenFailedStep
          /\ UNCHANGED << audio_device_, initialized_ >>
    /\ UNCHANGED << objVars, audio_active_, active_, bufVars, buffer_mutex_,
                    volume, wkVars, cbVars, histVars >>

\* void Sdl2Player::start()
Sdl2_start ==
    /\ sink = "sdl2"
    /\ \/ /\ Begin("start", "init_sdl")
          /\ sdl_refs < MaxInit
          /\ UNCHANGED << flagVars, sdlVars, wkVars >>
       \/ /\ At("start", "player_start")
          /\ Player_start
          /\ Goto("unpause")
          /\ UNCHANGED << audio_device_, initialized_, audio_active_, sdlVars,
                          sdl_log, wk_fill, wk_frames >>
       \/ /\ At("start", "unpause")
          /\ SDL_DeviceQuiet(audio_device_)
          /\ devices' = SDL_Paused(devices, audio_device_, FALSE)
          /\ sdl_log' = Append(sdl_log, "Unpause")
          /\ Finish("start", "ok")
          /\ UNCHANGED << flagVars, sdl_refs, wkVars >>
    /\ UNCHANGED << objVars, bufVars, buffer_mutex_, volume, cbVars, histVars >>

\* void Sdl2Player::stop(), called as op "stop" or from the destructor.
Sdl2_stopSteps(op, next) ==
    /\ sink = "sdl2"
    /\ \/ /\ At(op, "pause")
          /\ PauseStep
          /\ Goto("player_stop")
          /\ UNCHANGED << flagVars, sdl_refs, wkVars >>
       \/ /\ Player_stop(op, next)
          /\ UNCHANGED << audio_device_, initialized_, audio_active_, sdlVars,
                          sdl_log, wk_fill, wk_frames >>
    /\ UNCHANGED << objVars, bufVars, buffer_mutex_, volume, cbVars, histVars >>

Sdl2_stop ==
    \/ /\ sink = "sdl2"
       /\ Begin("stop", "pause")
       /\ UNCHANGED << objVars, flagVars, bufVars, buffer_mutex_, volume,
                       sdlVars, wkVars, cbVars, histVars >>
    \/ Sdl2_stopSteps("stop", "ok")

\* void Sdl2Player::cleanupAudio()
Sdl2_cleanupAudio == sink = "sdl2" /\ CleanupAudioSteps

\* Sdl2Player::~Sdl2Player(): stop(); cleanupAudio();
Sdl2_dtor ==
    \/ /\ sink = "sdl2"
       /\ Begin("dtor", "pause")
       /\ UNCHANGED << objVars, flagVars, bufVars, buffer_mutex_, volume,
                       sdlVars, wkVars, cbVars, histVars >>
    \/ Sdl2_stopSteps("dtor", "cleanup_dev")
    \/ Sdl2_cleanupAudio

\* ------------------------------------------------- the upstream stream
\* The i-th byte the stream yields after pos bytes.
NextSeq(pos, i) == ((pos + i - 1) % StreamPeriod) + 1

\* The chunk written at the front of the buffer instead of at the fill mark.
WriteChunkAtFront(buf, off, n, pos) ==
    [i \in DOMAIN buf |->
        IF i <= n THEN [s |-> NextSeq(pos, i), v |-> 0] ELSE buf[i]]

\* stream_->getPlayerChunkOrSilence(buf + off, latency, frames) with real
\* audio: writes n = frames * frameSize unscaled bytes at offset off.
WriteChunk(buf, off, n, pos) ==
    [i \in DOMAIN buf |->
        IF off < i /\ i <= off + n
        THEN [s |-> NextSeq(pos, i - off), v |-> 0]
        ELSE buf[i]]

\* Player::adjustVolume(buf + off, frames): scales the n = frames * frameSize
\* bytes at offset off by the current volume.
ScaleChunk(buf, off, n, vol) ==
    [i \in DOMAIN buf |->
        IF off < i /\ i <= off + n
        THEN [s |-> buf[i].s, v |-> vol]
        ELSE buf[i]]

\* ------------------------------------------- WebOSPlayer::processAudio
\* Frames rounded up instead of down: asks for a frame that does not fit.
FramesRoundedUp(fill, frame_size) ==
    (BUFFER_SIZE - fill + frame_size - 1) \div frame_size

\* size_t space = BUFFER_SIZE - fill; frames = space / frame_size
Frames(fill, frame_size) == (BUFFER_SIZE - fill) \div frame_size

\* The fill advanced by the frame count instead of the byte count.
FillAfterAddFrames(fill, frames, frame_size) == fill + frames

\* buffer_fill_.fetch_add(frames * frame_size)
FillAfterAdd(fill, frames, frame_size) == fill + frames * frame_size

\* The producer does not look at the flags.
ProducerIdleIgnored == FALSE

\* if (!audio_active_ || !initialized_) return;
ProducerIdle == ~audio_active_ \/ ~initialized_

\* The buffer is touched without waiting for the mutex.
LockAlwaysFree == TRUE

\* std::lock_guard<std::mutex> lock(buffer_mutex_): the thread goes on only
\* when no thread holds the mutex.
LockFree == buffer_mutex_ = 0

WorkerDone ==
    /\ wk_pc' = "loop"
    /\ wk_fill' = 0
    /\ wk_frames' = 0
    /\ up_req' = [up_req EXCEPT ![0] = NoRequest]

\* void WebOSPlayer::worker(): while (active_) { processAudio(); sleep 1 ms }
WebOS_worker ==
    /\ Running
    /\ sink = "webos"
    /\ wk_pc = "loop"
    /\ wk_pc' = IF active_ THEN "pa_check" ELSE "exited"
    /\ UNCHANGED << objVars, flagVars, bufVars, buffer_mutex_, volume, sdlVars,
                    ctlVars, wk_fill, wk_frames, wk_late, cbVars, histVars >>

\* void WebOSPlayer::processAudio()
WebOS_processAudio ==
    /\ Running
    /\ sink = "webos"
    /\ \/ \* if (!audio_active_ || !initialized_) return;
          /\ wk_pc = "pa_check"
          /\ wk_pc' = IF ProducerIdle THEN "loop" ELSE "pa_lock"
          /\ UNCHANGED << bufVars, buffer_mutex_, wk_fill, wk_frames, wk_late,
                          up_req, stream_pos, vol_failed >>
       \/ \* lock_guard; fill = buffer_fill_.load(); the three early returns
          /\ wk_pc = "pa_lock"
          /\ LockFree
          /\ IF \/ buffer_fill_ >= BUFFER_SIZE
                \/ fmt.frameSize = 0
                \/ Frames(buffer_fill_, fmt.frameSize) = 0
             THEN WorkerDone /\ UNCHANGED buffer_mutex_
             ELSE /\ buffer_mutex_' = -1
                  /\ wk_fill' = buffer_fill_
                  /\ wk_frames' = Frames(buffer_fill_, fmt.frameSize)
                  /\ wk_pc' = "pa_chunk"
                  /\ UNCHANGED up_req
          /\ UNCHANGED << bufVars, wk_late, stream_pos, vol_failed >>
       \/ \* stream_->getPlayerChunkOrSilence(audio_buffer_.get() + fill, 0, frames)
          /\ wk_pc = "pa_chunk"
          /\ audio_buffer_' = WriteChunk(audio_buffer_, wk_fill,
                                         wk_frames * fmt.frameSize, stream_pos)
          /\ stream_pos' = (stream_pos + wk_frames * fmt.frameSize) % StreamPeriod
          /\ up_req' = [up_req EXCEPT ![0] = [frames |-> wk_frames, latency |-> 0,
                                               real |-> TRUE, adjusted |-> 0]]
          /\ wk_pc' = "pa_add"
          /\ UNCHANGED << buffer_fill_, buffer_mutex_, wk_fill, wk_frames, wk_late,
                          vol_failed >>
       \/ \* buffer_fill_.fetch_add(frames * frame_size)
          /\ wk_pc = "pa_add"
          /\ buffer_fill_' = FillAfterAdd(buffer_fill_, wk_frames, fmt.frameSize)
          /\ wk_pc' = "pa_vol"
          /\ wk_late' = IF audio_active_ THEN wk_late ELSE wk_late + 1
          /\ UNCHANGED << audio_buffer_, buffer_mutex_, wk_fill, wk_frames, up_req,
                          stream_pos, vol_failed >>
       \/ \* try { adjustVolume(audio_buffer_.get() + fill, frames); } catch ...
          /\ wk_pc = "pa_vol"
          /\ \/ /\ audio_buffer_' = ScaleChunk(audio_buffer_, wk_fill,
                                              wk_frames * fmt.frameSize, volume)
                /\ UNCHANGED vol_failed
             \/ /\ vol_failed' = TRUE
                /\ UNCHANGED audio_buffer_
          /\ buffer_mutex_' = 0
          /\ WorkerDone
          /\ UNCHANGED << buffer_fill_, wk_late, stream_pos >>
    /\ UNCHANGED << objVars, flagVars, volume, sdlVars, ctlVars, cb_pc, cb_len,
                    cb_stream, cb_after_stop, last_delivered, escaped >>

\* ------------------------------------------- WebOSPlayer::audioCallback
\* bytes_to_copy = std::min(static_cast<size_t>(len), available)
BytesToCopy(len, available) == Min(len, available)

\* memcpy(stream, audio_buffer_, n), then SDL_memset(stream + n, 0, len - n)
StreamAfterCopy(buf, len, n) ==
    [i \in 1..len |-> IF i <= n THEN buf[i] ELSE Zero]

\* The remaining bytes are not moved to the front.
BufferAfterShiftMissing(buf, n, available) == buf

\* memmove(audio_buffer_, audio_buffer_ + n, available - n) when n < available
BufferAfterShift(buf, n, available) ==
    IF 0 < n /\ n < available
    THEN [i \in DOMAIN buf |-> IF i <= available - n THEN buf[i + n] ELSE buf[i]]
    ELSE buf

\* The fill counter reset on every copy, whatever is left in the buffer.
FillAfterCopyReset(n, available) == 0

\* buffer_fill_.store(available - n) / store(0), only when n > 0
FillAfterCopy(n, available) ==
    IF n > 0 THEN (IF n < available THEN available - n ELSE 0) ELSE available

\* The destination is left as the backend handed it over.
SilenceUnwritten(len) == [i \in 1..len |-> Stale]

\* SDL_memset(stream, 0, len)
Silence(len) == [i \in 1..len |-> Zero]

\* The callback does not look at audio_active_.
CallbackInactiveIgnored == FALSE

\* if (!player || !player->audio_active_): userdata is always the sink.
CallbackInactive == ~audio_active_

\* static void WebOSPlayer::audioCallback(void* userdata, Uint8* stream, int len)
\* run by the audio thread of device d.
WebOS_audioCallback(d) ==
    /\ Running
    /\ sink = "webos"
    /\ \/ \* invoked by SDL on a playing device; the not-active test
          /\ ctl_pc # "dead"
          /\ devices[d] = "playing"
          /\ cb_pc[d] = "idle"
          /\ cb_after_stop' = [cb_after_stop EXCEPT ![d] = Stopped]
          /\ LET len == hw_len IN
                /\ cb_len' = [cb_len EXCEPT ![d] = len]
                /\ IF CallbackInactive
                   THEN /\ cb_stream' = [cb_stream EXCEPT ![d] = Silence(len)]
                        /\ cb_pc' = [cb_pc EXCEPT ![d] = "done"]
                   ELSE /\ cb_pc' = [cb_pc EXCEPT ![d] = "lock"]
                        /\ UNCHANGED cb_stream
          /\ UNCHANGED << bufVars, buffer_mutex_, last_delivered >>
       \/ \* lock_guard, copy, shift, store, zero fill
          /\ cb_pc[d] = "lock"
          /\ LockFree
          /\ buffer_mutex_' = d
          /\ LET available == buffer_fill_
                 n == BytesToCopy(cb_len[d], available)
             IN /\ cb_stream' = [cb_stream EXCEPT
                                    ![d] = StreamAfterCopy(audio_buffer_, cb_len[d], n)]
                /\ audio_buffer_' = BufferAfterShift(audio_buffer_, n, available)
                /\ buffer_fill_' = FillAfterCopy(n, available)
                /\ last_delivered' = IF n > 0 THEN audio_buffer_[n].s
                                     ELSE last_delivered
          /\ cb_pc' = [cb_pc EXCEPT ![d] = "done"]
          /\ UNCHANGED << cb_len, cb_after_stop >>
       \/ \* return: the lock_guard releases, SDL takes the stream
          /\ cb_pc[d] = "done"
          /\ buffer_mutex_' = IF buffer_mutex_ = d THEN 0 ELSE buffer_mutex_
          /\ cb_pc' = [cb_pc EXCEPT ![d] = "idle"]
          /\ cb_stream' = [cb_stream EXCEPT ![d] = << >>]
          /\ cb_len' = [cb_len EXCEPT ![d] = 0]
          /\ cb_after_stop' = [cb_after_stop EXCEPT ![d] = FALSE]
          /\ UNCHANGED << bufVars, last_delivered >>
    /\ UNCHANGED << objVars, flagVars, volume, sdlVars, ctlVars, wkVars, up_req,
                    stream_pos, vol_failed, escaped >>

\* ---------------------------------------------- Sdl2Player::audioCallback
\* The frame count rounded up: a frame the destination has no room for.
PullFramesRoundedUp(len, frame_size) == (len + frame_size - 1) \div frame_size

\* auto frames = len / fmt.frameSize()
PullFrames(len, frame_size) == len \div frame_size

\* latency = milliseconds(audio_spec_.samples / fmt.msRate()) + LATENCY
PullLatency(ms_rate) == (SPEC_SAMPLES \div ms_rate) + LATENCY

\* What getPlayerChunkOrSilence leaves in the destination: n bytes of the
\* stream (real) or of silence; the rest of the destination is not written.
StreamAfterPull(len, n, real, pos) ==
    [i \in 1..len |->
        IF i <= n
        THEN (IF real THEN [s |-> NextSeq(pos, i), v |-> 0] ELSE Zero)
        ELSE Stale]

\* static Sdl2Player::audio_callback and Sdl2Player::audioCallback, run by
\* the audio thread of device d.
Sdl2_audioCallback(d) ==
    /\ Running
    /\ sink = "sdl2"
    /\ \/ \* frames, latency, getPlayerChunkOrSilence(stream, latency, frames)
          /\ ctl_pc # "dead"
          /\ devices[d] = "playing"
          /\ cb_pc[d] = "idle"
          /\ \E real \in BOOLEAN :
                LET len == hw_len
                    frames == PullFrames(len, fmt.frameSize)
                    n == frames * fmt.frameSize
                IN /\ cb_len' = [cb_len EXCEPT ![d] = len]
                   /\ up_req' = [up_req EXCEPT
                                    ![d] = [frames |-> frames,
                                            latency |-> PullLatency(fmt.msRate),
                                            real |-> real, adjusted |-> 0]]
                   /\ cb_stream' = [cb_stream EXCEPT
                                      ![d] = StreamAfterPull(len, n, real, stream_pos)]
                   /\ stream_pos' = IF real THEN (stream_pos + n) % StreamPeriod
                                    ELSE stream_pos
                   /\ cb_pc' = [cb_pc EXCEPT ![d] = IF real THEN "adjust" ELSE "done"]
          /\ UNCHANGED << vol_failed, escaped >>
       \/ \* else adjustVolume(stream, frames): no handler around it
          /\ cb_pc[d] = "adjust"
          /\ \/ /\ cb_stream' = [cb_stream EXCEPT
                                   ![d] = ScaleChunk(cb_stream[d], 0,
                                              up_req[d].frames * fmt.frameSize, volume)]
                /\ up_req' = [up_req EXCEPT ![d].adjusted = up_req[d].adjusted + 1]
                /\ cb_pc' = [cb_pc EXCEPT ![d] = "done"]
                /\ UNCHANGED << vol_failed, escaped >>
             \/ /\ vol_failed' = TRUE
                /\ escaped' = TRUE
                /\ UNCHANGED << cb_stream, up_req, cb_pc >>
          /\ UNCHANGED << cb_len, stream_pos >>
       \/ \* return
          /\ cb_pc[d] = "done"
          /\ cb_pc' = [cb_pc EXCEPT ![d] = "idle"]
          /\ cb_stream' = [cb_stream EXCEPT ![d] = << >>]
          /\ cb_len' = [cb_len EXCEPT ![d] = 0]
          /\ up_req' = [up_req EXCEPT ![d] = NoRequest]
          /\ UNCHANGED << stream_pos, vol_failed, escaped >>
    /\ UNCHANGED << objVars, flagVars, bufVars, buffer_mutex_, volume, sdlVars,
                    ctlVars, wkVars, cb_after_stop, last_delivered >>

\* Control returns to the caller of start() or stop().
ControlReturn ==
    /\ Return
    /\ UNCHANGED << objVars, flagVars, bufVars, buffer_mutex_, volume, sdlVars,
                    wkVars, cbVars, histVars >>

\* ------------------------------------------------------ the whole program
Next ==
    \/ WebOS_start
    \/ WebOS_initializeAudio
    \/ WebOS_stop
    \/ WebOS_dtor
    \/ WebOS_worker
    \/ WebOS_processAudio
    \/ \E d \in DeviceIds : WebOS_audioCallback(d)
    \/ Sdl2_start
    \/ Sdl2_initializeAudio
    \/ Sdl2_stop
    \/ Sdl2_dtor
    \/ \E d \in DeviceIds : Sdl2_audioCallback(d)
    \/ ControlReturn

Spec == Init /\ [][Next]_vars

\* The buffered sink alone, with the threads the platform schedules getting
\* to run: the worker thread and the audio thread of every device take the
\* steps they can take.
WebOSInit == Init /\ sink = "webos"

WebOSNext ==
    \/ WebOS_start
    \/ WebOS_initializeAudio
    \/ WebOS_stop
    \/ WebOS_dtor
    \/ WebOS_worker
    \/ WebOS_processAudio
    \/ \E d \in DeviceIds : WebOS_audioCallback(d)
    \/ ControlReturn

FairSpec ==
    /\ WebOSInit
    /\ [][WebOSNext]_vars
    /\ WF_vars(WebOS_worker)
    /\ WF_vars(WebOS_processAudio)
    /\ \A d \in DeviceIds : WF_vars(WebOS_audioCallback(d))

\* ================================================================ claims
\* The buffered copy step of the callback of device d: it takes the lock,
\* copies, shifts and stores in one step of the model.
CopyStep(d) == sink = "webos" /\ cb_pc[d] = "lock" /\ cb_pc'[d] = "done"

\* The step in which the worker advances the fill counter.
AddStep == sink = "webos" /\ wk_pc = "pa_add" /\ wk_pc' = "pa_vol"

\* C1: in every reachable state of the buffered sink 0 <= buffer_fill_ <=
\* BUFFER_SIZE, and the bytes a producer iteration is about to write end
\* inside the buffer, for every frame size and every callback length.
C1_FillWithinCapacity ==
    /\ buffer_fill_ \in 0..BUFFER_SIZE
    /\ wk_pc \in {"pa_chunk", "pa_add"} =>
          wk_fill + wk_frames * fmt.frameSize <= BUFFER_SIZE

\* The buffer has been filled to the brim again after a callback drained it.
C1_Witness ==
    /\ sink = "webos"
    /\ buffer_fill_ = BUFFER_SIZE
    /\ last_delivered > 0

\* C2: the fill counter after any step is the fill before plus the bytes
\* written minus the bytes consumed: the producer adds exactly
\* floor((BUFFER_SIZE - fill) / frameSize) * frameSize bytes, asked of the
\* stream at latency 0, an active callback takes min(len, fill), and every
\* other step (a skipped iteration among them) leaves the counter alone.
C2_FillArithmetic ==
    [][ /\ AddStep =>
            /\ buffer_fill_' = buffer_fill_
                  + ((BUFFER_SIZE - buffer_fill_) \div fmt.frameSize) * fmt.frameSize
            /\ up_req[0].frames = (BUFFER_SIZE - buffer_fill_) \div fmt.frameSize
            /\ up_req[0].latency = 0
        /\ \A d \in DeviceIds : CopyStep(d) =>
            buffer_fill_' = buffer_fill_
                  - (IF cb_len[d] < buffer_fill_ THEN cb_len[d] ELSE buffer_fill_)
        /\ (~AddStep /\ \A d \in DeviceIds : ~CopyStep(d)) => UNCHANGED buffer_fill_
        /\ buffer_fill_' \in 0..BUFFER_SIZE
      ]_vars

\* The producer has topped up a buffer that a callback had partly drained.
C2_Witness ==
    /\ sink = "webos"
    /\ wk_pc = "pa_vol"
    /\ wk_fill > 0
    /\ last_delivered > 0

\* C3: an active buffered callback of length len on fill f copies the first
\* min(len, f) buffer bytes to the destination, zeroes the rest of the
\* destination, and leaves the bytes [min(len, f), f) at the front of the
\* buffer in their order.
C3_CopyShiftZeroFill ==
    [][ \A d \in DeviceIds : CopyStep(d) =>
          LET f == buffer_fill_
              len == cb_len[d]
              n == IF len < f THEN len ELSE f
          IN /\ DOMAIN cb_stream'[d] = 1..len
             /\ \A i \in 1..len :
                   cb_stream'[d][i] = IF i <= n THEN audio_buffer_[i] ELSE Zero
             /\ \A i \in 1..(f - n) : audio_buffer_'[i] = audio_buffer_[i + n]
             /\ buffer_fill_' = f - n
      ]_vars

\* A callback has met an underrun: real bytes followed by zero fill, and
\* an earlier callback had shifted the buffer.
C3_Witness ==
    \E d \in DeviceIds :
        /\ sink = "webos"
        /\ cb_pc[d] = "done"
        /\ buffer_mutex_ = d
        /\ cb_len[d] > 1
        /\ cb_stream[d][1].s > 1
        /\ cb_stream[d][cb_len[d]] = Zero

\* C4: a hardware callback that begins after stop() has returned, and before
\* another operation begins, finds the sink inactive: it writes zero to its
\* whole destination and takes neither the lock nor a byte of the buffer.
C4_SilentAfterStop ==
    \A d \in DeviceIds :
        (sink = "webos" /\ cb_after_stop[d]) =>
            /\ cb_pc[d] = "done"
            /\ buffer_mutex_ # d
            /\ DOMAIN cb_stream[d] = 1..cb_len[d]
            /\ \A i \in 1..cb_len[d] : cb_stream[d][i] = Zero

\* Such a callback has run while bytes were still buffered.
C4_Witness ==
    \E d \in DeviceIds :
        /\ sink = "webos"
        /\ cb_after_stop[d]
        /\ cb_len[d] > 0
        /\ buffer_fill_ > 0

\* A second stop() in a row is running: the last completed operation was a
\* stop() as well.
SecondStop == ctl_op = "stop" /\ prev_op.op = "stop"

\* C5 as claimed: the second of two stop() calls in a row issues no further
\* pause on the device.
C5_SecondStopIssuesNoPause == SecondStop => sdl_log = << >>

\* C5 as amended: in both sinks no step of the second of two stop() calls in
\* a row changes a field of the sink, the state of a device, the audio
\* subsystem, the buffer or the worker; a stop() issues no SDL call but the
\* pause of its device, so it releases nothing, once or twice.
C5_SecondStopChangesNothing ==
    [][ /\ (SecondStop /\ ctl_pc' # ctl_pc) =>
              UNCHANGED << flagVars, sdlVars, bufVars, buffer_mutex_, wkVars >>
        /\ ctl_op = "stop" => \A i \in DOMAIN sdl_log : sdl_log[i] = "Pause"
      ]_vars

\* The second stop() has run to its end on a sink that holds a device, and
\* has paused that device once more.
C5_Witness ==
    /\ SecondStop
    /\ ctl_pc = "ok"
    /\ audio_device_ # 0
    /\ sdl_log = << "Pause" >>

\* Devices that SDL holds open.
OpenDevices == { d \in DeviceIds : devices[d] # "closed" }

\* C6: a start() that follows a successful start(), and succeeds too, leaves
\* the state one start() leaves: the audio subsystem initialised once, exactly one device
\* open, and that device the one audio_device_ names.
C6_SecondStartIsIdempotent ==
    (/\ ctl_op = "start"
     /\ prev_op = [op |-> "start", res |-> "ok"]
     /\ ctl_pc = "ok") =>
        /\ sdl_refs = 1
        /\ OpenDevices = {audio_device_}

\* C7: the bytes the buffered callbacks hand to the hardware, silence fill
\* left out, are the bytes of the upstream sequence in production order, each
\* once and none skipped, scaled by the volume in force (a byte is unscaled
\* only when a volume pass has failed).
C7_RoundTripInOrder ==
    [][ \A d \in DeviceIds : CopyStep(d) =>
          LET n == IF cb_len[d] < buffer_fill_ THEN cb_len[d] ELSE buffer_fill_
          IN \A i \in 1..n :
                /\ cb_stream'[d][i].s =
                      ((last_delivered + i - 1) % StreamPeriod) + 1
                /\ cb_stream'[d][i].v \in {0, volume}
                /\ ~vol_failed => cb_stream'[d][i].v = volume
      ]_vars

\* A callback delivers scaled bytes that continue where an earlier callback
\* stopped, after the upstream sequence has been through the buffer once.
C7_Witness ==
    \E d \in DeviceIds :
        /\ sink = "webos"
        /\ cb_pc[d] = "done"
        /\ buffer_mutex_ = d
        /\ cb_len[d] > 0
        /\ cb_stream[d][1].s > 1
        /\ cb_stream[d][1].v = volume
        /\ stream_pos < last_delivered

\* A start() has failed and is about to report its error to the caller.
StartFailed == ctl_op = "start" /\ ctl_pc \in (Results \ {"ok"})

\* C8: when start() fails nothing is left behind: the audio subsystem is
\* not initialised, no device is open, the sink is neither initialized nor
\* active and holds no device handle.
C8_FailedStartLeavesNothing ==
    StartFailed =>
        /\ sdl_refs = 0
        /\ OpenDevices = {}
        /\ ~initialized_
        /\ ~audio_active_
        /\ ~active_
        /\ audio_device_ = 0

\* C9: a start() on a stream whose samples are not 16 bits wide initialises
\* no audio subsystem and opens no device: the error comes first.
C9_UnsupportedFormatBeforeResources ==
    (ctl_op = "start" /\ fmt.bits # 16) =>
        /\ \A i \in DOMAIN sdl_log : sdl_log[i] \notin {"Init", "Open"}
        /\ ctl_pc # "ok"

\* C10: a failing volume adjustment never leaves the step that called it:
\* no exception comes out of a hardware callback.
C10_VolumeFailureStaysLocal == vol_failed => ~escaped

C12_LockNotHeldAcrossUpstream ==
    (sink = "webos" /\ wk_pc \in {"pa_chunk", "pa_vol"}) => buffer_mutex_ # -1

\* The producer is between taking the lock and releasing it.
WorkerSection == wk_pc \in {"pa_chunk", "pa_add", "pa_vol"}

\* C13: every change of buffer_fill_ and of the buffer contents is made by a
\* thread that holds buffer_mutex_ (the producer inside its section, or a
\* callback in the step that takes the lock, copies, shifts and stores); no
\* callback copies while the producer is in its section, so the fill the
\* producer loaded stays the fill of the buffer until the producer itself
\* advances it.
C13_BufferChangesUnderLock ==
    [][ sink = "webos" =>
          /\ (bufVars' # bufVars) =>
                \/ /\ WorkerSection
                   /\ buffer_mutex_ = -1
                   /\ wk_pc' # wk_pc
                   /\ cb_pc' = cb_pc
                \/ \E d \in DeviceIds :
                      /\ CopyStep(d)
                      /\ buffer_mutex_' = d
                      /\ ~WorkerSection
          /\ WorkerSection =>
                /\ buffer_mutex_ = -1
                /\ buffer_fill_ = IF wk_pc = "pa_vol"
                                  THEN wk_fill + wk_frames * fmt.frameSize
                                  ELSE wk_fill
      ]_vars

\* A callback waits for the lock while the producer, topping up a partly
\* drained buffer, is about to advance the fill.
C13_Witness ==
    \E d \in DeviceIds :
        /\ sink = "webos"
        /\ cb_pc[d] = "lock"
        /\ wk_pc = "pa_add"
        /\ wk_fill > 0

\* C14: no callback copies while the producer has counted bytes it has not
\* yet passed through adjustVolume, and every byte below the fill mark that
\* a copying callback finds is scaled by the volume (unless a volume pass has
\* failed).
C14_ScaledBeforeObserved ==
    [][ \A d \in DeviceIds : CopyStep(d) =>
          /\ wk_pc # "pa_vol"
          /\ \A i \in 1..buffer_fill_ :
                audio_buffer_[i].v # volume => vol_failed
      ]_vars

\* The fill already counts fresh bytes that are not scaled yet, and a
\* callback that has found the sink active waits for the lock.
C14_Witness ==
    \E d \in DeviceIds :
        /\ sink = "webos"
        /\ wk_pc = "pa_vol"
        /\ buffer_fill_ > wk_fill
        /\ audio_buffer_[wk_fill + 1].v = 0
        /\ cb_pc[d] = "lock"

\* C15: a buffered callback that finds the sink not active goes straight to
\* its end: it writes zero to all len destination bytes, does not take the
\* lock and changes neither the fill nor the buffer, and neither does its
\* return.
C15_InactiveCallbackSkipsBuffer ==
    [][ \A d \in DeviceIds :
          /\ (sink = "webos" /\ ~audio_active_ /\ cb_pc[d] = "idle"
                /\ cb_pc'[d] # "idle") =>
                /\ cb_pc'[d] = "done"
                /\ cb_len'[d] = hw_len
                /\ DOMAIN cb_stream'[d] = 1..hw_len
                /\ \A i \in 1..hw_len : cb_stream'[d][i] = Zero
                /\ UNCHANGED << audio_buffer_, buffer_fill_, buffer_mutex_ >>
          /\ (sink = "webos" /\ cb_pc[d] = "done" /\ buffer_mutex_ # d
                /\ cb_pc'[d] = "idle") =>
                UNCHANGED << audio_buffer_, buffer_fill_, buffer_mutex_ >>
      ]_vars

\* The callback of the sink's own device has run between stop() clearing
\* audio_active_ and stop() pausing the device, with bytes in the buffer.
C15_Witness ==
    \E d \in DeviceIds :
        /\ sink = "webos"
        /\ ctl_op = "stop"
        /\ ctl_pc = "pause"
        /\ d = audio_device_
        /\ cb_pc[d] = "done"
        /\ buffer_mutex_ # d
        /\ cb_len[d] > 0
        /\ buffer_fill_ > 0

\* C16: once stop() has cleared audio_active_ the worker increases the fill
\* at most once more (the iteration that was in flight); an iteration that
\* begins with the flag clear returns without touching the buffer; a worker
\* that finds active_ clear at the top of its loop exits; and, the worker and
\* the audio threads being scheduled fairly, the worker stop() waits for
\* does exit.
C16_CooperativeShutdown ==
    /\ [](wk_late <= 1)
    /\ [][ /\ (wk_pc = "pa_check" /\ ~audio_active_ /\ wk_pc' # wk_pc) =>
                (wk_pc' = "loop" /\ UNCHANGED << audio_buffer_, buffer_fill_ >>)
           /\ (wk_pc = "loop" /\ ~active_ /\ wk_pc' # wk_pc) => wk_pc' = "exited"
         ]_vars
    /\ (sink = "webos" /\ ctl_pc = "join") ~> (wk_pc \in {"none", "exited"})

\* The iteration in flight when stop() cleared the flag has increased the
\* fill, and the worker has exited since, with stop() waiting to join it.
C16_Witness ==
    /\ sink = "webos"
    /\ ctl_op = "stop"
    /\ ctl_pc = "join"
    /\ wk_late = 1
    /\ wk_pc = "exited"

\* The destructor has begun to release the sink: cleanupAudio() is past
\* closing the sink's device.
Releasing == ctl_op = "dtor" /\ ctl_pc \in {"cleanup_quit", "dead"}

\* The step in which the direct-pull callback of device d asks the stream.
PullStep(d) == sink = "sdl2" /\ cb_pc[d] = "idle" /\ cb_pc'[d] # "idle"

\* C17: once the destructor has begun to release the sink, no hardware
\* callback copies from the buffer or moves the fill (buffered sink) and none
\* pulls from the stream (direct-pull sink).
C17_NoCallbackOnReleasedSink ==
    [][ Releasing => \A d \in DeviceIds : ~CopyStep(d) /\ ~PullStep(d) ]_vars

\* C18: a direct-pull callback that returns has asked the stream for exactly
\* floor(len / frameSize) frames at a latency of floor(1024 / msRate) + 30
\* milliseconds, has passed those frames through the volume adjustment once
\* when the stream reported real audio and not at all when it did not, has
\* written nothing but those frames to its destination, and has used neither
\* the buffer nor a worker thread (needsThread is false for this sink and
\* true for the buffered one).
C18_DirectPull ==
    [][ /\ needsThread <=> sink = "webos"
        /\ \A d \in DeviceIds :
              (sink = "sdl2" /\ cb_pc[d] = "done" /\ cb_pc'[d] = "idle") =>
                 LET n == (cb_len[d] \div fmt.frameSize) * fmt.frameSize
                 IN /\ up_req[d].frames = cb_len[d] \div fmt.frameSize
                    /\ up_req[d].latency = (1024 \div fmt.msRate) + 30
                    /\ up_req[d].adjusted = IF up_req[d].real THEN 1 ELSE 0
                    /\ \A i \in 1..cb_len[d] :
                          cb_stream[d][i] =
                             IF i > n THEN Stale
                             ELSE IF up_req[d].real
                                  THEN [s |-> cb_stream[d][i].s, v |-> volume]
                                  ELSE Zero
                    /\ wk_pc = "none"
                    /\ buffer_fill_ = 0
                    /\ buffer_mutex_ = 0
      ]_vars

\* A callback of three bytes on two-byte frames has pulled one frame of real
\* audio and scaled it.
C18_Witness ==
    \E d \in DeviceIds :
        /\ sink = "sdl2"
        /\ cb_pc[d] = "done"
        /\ cb_len[d] = 3
        /\ up_req[d].real
        /\ up_req[d].adjusted = 1
        /\ cb_stream[d][2].v = volume
        /\ cb_stream[d][3] = Stale

\* Every callback length is a whole number of frames.
WholeFrameCallbacks == hw_len % fmt.frameSize = 0

\* Number of stream bytes in the destination of the callback of device d.
Delivered(d) ==
    Cardinality({ i \in DOMAIN cb_stream[d] : cb_stream[d][i].s > 0 })

\* C19: when every callback length is a multiple of the frame size, the fill
\* of the buffered sink is a multiple of the frame size in every reachable
\* state, every producer write starts on a frame boundary and every callback
\* delivers a whole number of frames.
C19_FrameAligned ==
    (sink = "webos" /\ WholeFrameCallbacks) =>
        /\ buffer_fill_ % fmt.frameSize = 0
        /\ wk_pc \in {"pa_chunk", "pa_add", "pa_vol"} => wk_fill % fmt.frameSize = 0
        /\ \A d \in DeviceIds : Delivered(d) % fmt.frameSize = 0

\* With two-byte frames and two-byte callbacks, the producer tops up on a
\* frame boundary (the front) a buffer a callback has taken its frame from.
C19_Witness ==
    /\ sink = "webos"
    /\ fmt.frameSize = 2
    /\ hw_len = 2
    /\ last_delivered > 0
    /\ wk_pc = "pa_add"
    /\ wk_fill = 0

\* C20: no step of start() or stop() changes buffer_fill_ or the buffer; the
\* bytes below the fill mark stay where they are in every step but a
\* callback's copy (the producer writes above them), and a copy hands over
\* the oldest buffered byte first.  So what was buffered before a stop() is
\* what the first active callback after the next start() delivers, ahead of
\* anything produced after the restart.
C20_BufferSurvivesRestart ==
    [][ sink = "webos" =>
          /\ (ctl_op' # ctl_op \/ ctl_pc' # ctl_pc) =>
                UNCHANGED << audio_buffer_, buffer_fill_ >>
          /\ (\A d \in DeviceIds : ~CopyStep(d)) =>
                /\ buffer_fill_' >= buffer_fill_
                /\ \A i \in 1..buffer_fill_ : audio_buffer_'[i].s = audio_buffer_[i].s
          /\ \A d \in DeviceIds :
                (CopyStep(d) /\ cb_len[d] > 0 /\ buffer_fill_ > 0) =>
                    cb_stream'[d][1] = audio_buffer_[1]
      ]_vars

\* A start() that follows a stop() has opened its device and started the
\* worker, and is about to set audio_active_: the bytes buffered before the
\* stop() are still at the front of the buffer.
C20_Witness ==
    /\ sink = "webos"
    /\ ctl_op = "start"
    /\ ctl_pc = "set_active"
    /\ prev_op.op = "stop"
    /\ ~audio_active_
    /\ buffer_fill_ > 0
    /\ audio_buffer_[1].s > 0

====
